---- MODULE Spec2Model ----
(***************************************************************************)
(* City-AQI dashboard: the data-shaping function of src/services/aqi.ts    *)
(* and the fetch/poll state of components/EnvironmentalAnalytics.tsx.      *)
(*                                                                         *)
(* Numbers.  JavaScript numbers are modelled in fixed point: a number x is *)
(* the integer x * Unit.  Math.random() returns k / RandDen for some k in  *)
(* 0 .. RandDen-1, and Unit = 2 * RandDen makes every value the code       *)
(* computes (r*40-20, r*20-10, r*5-2.5, r*10-5, r*100-50) an exact integer *)
(* number of units.                                                        *)
(***************************************************************************)
EXTENDS Integers, Sequences, FiniteSets, TLC

\* ------------------------------------------------------------------ bounds
RandDen == 4          \* Math.random() is one of 0/4, 1/4, 2/4, 3/4
NumCities == 2        \* how many of the <option>s of App.tsx are selected
MaxCalls == 3         \* fetchData calls started in one run of the component

Unit == 2 * RandDen
Num(n) == n * Unit

\* An optional value is a sequence of length at most one: Absent is the
\* JavaScript undefined, Some(v) a present value
Absent == << >>
Some(v) == << v >>

\* the null of useState<string | null>, and of useState<EnvironmentalData | null>
Null == "null"
NullData == [ null |-> TRUE ]

\* ------------------------------------------------------- services/aqi.ts

\* v || d for an optional number v: d when v is falsy (undefined or 0)
OrElse(v, d) == IF v = Absent THEN d ELSE IF v[1] = 0 THEN d ELSE v[1]

Falsy(v) == OrElse(v, 0) = 0

\* Math.max(0, x)
Max0(x) == IF x < 0 THEN 0 ELSE x

\* Math.round(x * tenths / 10) for a fixed-point x: the nearest integer,
\* halves rounded up, as a fixed-point number again
RoundTimes(x, tenths) == Num((2 * tenths * x + 10 * Unit) \div (20 * Unit))

\* the k-th value of the Math.random() stream started at seed, as the
\* numerator of a fraction over RandDen
rand(seed, k) == (seed + k + (k \div RandDen)) % RandDen

\* Math.random() * m, in units, for the draw with numerator r
RandTimes(r, m) == 2 * r * m

getAqiCategoryStrict(aqi) ==
    IF aqi < Num(50) THEN "Good"
    ELSE IF aqi < Num(100) THEN "Moderate"
    ELSE IF aqi < Num(150) THEN "Unhealthy for Sensitive Groups"
    ELSE IF aqi < Num(200) THEN "Unhealthy"
    ELSE IF aqi < Num(300) THEN "Very Unhealthy"
    ELSE "Hazardous"

getAqiCategory(aqi) ==
    IF aqi <= Num(50) THEN "Good"
    ELSE IF aqi <= Num(100) THEN "Moderate"
    ELSE IF aqi <= Num(150) THEN "Unhealthy for Sensitive Groups"
    ELSE IF aqi <= Num(200) THEN "Unhealthy"
    ELSE IF aqi <= Num(300) THEN "Very Unhealthy"
    ELSE "Hazardous"

generateVariationFlat(baseValue, r) == Max0(Num(100) + (RandTimes(r, 40) - Num(20)))

\* Math.max(0, baseValue + (Math.random() * 40 - 20))
generateVariation(baseValue, r) == Max0(baseValue + (RandTimes(r, 40) - Num(20)))

Digits == <<"0", "1", "2", "3", "4", "5", "6", "7", "8", "9">>

\* n.toString() for 0 <= n < 10000
toString(n) ==
    IF n < 10 THEN Digits[n + 1]
    ELSE IF n < 100 THEN Digits[(n \div 10) + 1] \o Digits[(n % 10) + 1]
    ELSE IF n < 1000 THEN Digits[(n \div 100) + 1] \o Digits[((n \div 10) % 10) + 1]
                          \o Digits[(n % 10) + 1]
    ELSE Digits[(n \div 1000) + 1] \o Digits[((n \div 100) % 10) + 1]
         \o Digits[((n \div 10) % 10) + 1] \o Digits[(n % 10) + 1]

\* s.padStart(2, '0') of a decimal numeral
PadStart2(s) == IF Len(s) < 2 THEN "0" \o s ELSE s

\* h.toString().padStart(2, '0') + ':00'
HourLabel(h) == PadStart2(toString(h)) \o ":00"

\* new Date(2024, i, 1).toLocaleString('default', { month: 'short' })
MonthShort ==
    <<"Jan", "Feb", "Mar", "Apr", "May", "Jun",
      "Jul", "Aug", "Sep", "Oct", "Nov", "Dec">>

\* iaqi?.x?.v of the upstream body
Reading(waqiData, x) == waqiData.iaqi[x]

\* how many Math.random() draws one hourly entry makes: one for the AQI
\* and one for each of t, h, co whose reading is falsy
HourlyDraws(waqiData) ==
    1 + (IF Falsy(Reading(waqiData, "t")) THEN 1 ELSE 0)
      + (IF Falsy(Reading(waqiData, "h")) THEN 1 ELSE 0)
      + (IF Falsy(Reading(waqiData, "co")) THEN 1 ELSE 0)

hourlyEntry(waqiData, now, seed, i) ==
    LET t  == Reading(waqiData, "t")
        h  == Reading(waqiData, "h")
        co == Reading(waqiData, "co")
        k0 == 2 + i * HourlyDraws(waqiData)
        kH == k0 + (IF Falsy(t) THEN 1 ELSE 0)
        kC == kH + (IF Falsy(h) THEN 1 ELSE 0)
        kA == kC + (IF Falsy(co) THEN 1 ELSE 0)
    IN [ hour        |-> HourLabel((now - i) % 24),
         temperature |-> OrElse(t, Num(25) + (RandTimes(rand(seed, k0), 5) - (Num(5) \div 2))),
         humidity    |-> OrElse(h, Num(60) + (RandTimes(rand(seed, kH), 10) - Num(5))),
         co2         |-> OrElse(co, Num(400) + (RandTimes(rand(seed, kC), 100) - Num(50))),
         aqi         |-> [ value      |-> generateVariation(waqiData.aqi, rand(seed, kA)),
                           pollutants |-> [ no2 |-> Reading(waqiData, "no2"),
                                            so2 |-> Reading(waqiData, "so2"),
                                            o3  |-> Reading(waqiData, "o3") ] ] ]

LocationFactors ==
    << <<"downtown", 12>>, <<"suburbs", 8>>, <<"industrial", 14>>,
       <<"residential", 9>>, <<"parks", 7>> >>

locationAveragesFour(currentAqi, seed) ==
    [ j \in 1..4 |-> [ location   |-> LocationFactors[j][1],
                       averageAqi |-> RoundTimes(currentAqi, LocationFactors[j][2]) ] ]

\* the locationAverages array literal

locationAverages(currentAqi, seed) ==
    [ j \in 1..5 |-> [ location   |-> LocationFactors[j][1],
                       averageAqi |-> RoundTimes(currentAqi, LocationFactors[j][2]) ] ]

\* the `current` member of processedData; confidence is in hundredths
currentSnapshot(waqiData, now, seed) ==
    LET currentAqi == waqiData.aqi
    IN [ timestamp   |-> now,
         temperature |-> OrElse(Reading(waqiData, "t"), Num(25)),
         humidity    |-> OrElse(Reading(waqiData, "h"), Num(60)),
         co2         |-> OrElse(Reading(waqiData, "co"), Num(400)),
         aqi |-> [ value      |-> currentAqi,
                   category   |-> getAqiCategory(currentAqi),
                   pollutants |-> [ pm25 |-> Reading(waqiData, "pm25"),
                                    no2  |-> Reading(waqiData, "no2"),
                                    so2  |-> Reading(waqiData, "so2"),
                                    o3   |-> Reading(waqiData, "o3") ],
                   prediction |-> [ predictedAQI |-> currentAqi + (RandTimes(rand(seed, 0), 20) - Num(10)),
                                    confidence   |-> 85,
                                    trend        |-> IF 2 * rand(seed, 1) > RandDen
                                                     THEN "improving" ELSE "worsening" ] ] ]

\* the processedData object built from a body whose status is 'ok'; now is
\* the hour of new Date(), seed the state of Math.random()
processData(waqiData, now, seed) ==
    LET currentAqi == waqiData.aqi
        kD == 2 + 24 * HourlyDraws(waqiData)
    IN [ current |-> currentSnapshot(waqiData, now, seed),
         hourly  |-> [ n \in 1..24 |-> hourlyEntry(waqiData, now, seed, n - 1) ],
         timeRangeAverages |->
           [ daily   |-> [ n \in 1..24 |->
                           [ hour |-> HourLabel(n - 1),
                             averageAqi |-> generateVariation(currentAqi, rand(seed, kD + n - 1)) ] ],
             weekly  |-> [ n \in 1..4 |->
                           [ week |-> "Week " \o toString(n),
                             averageAqi |-> generateVariation(currentAqi, rand(seed, kD + 24 + n - 1)) ] ],
             monthly |-> [ n \in 1..12 |->
                           [ month |-> MonthShort[n],
                             averageAqi |-> generateVariation(currentAqi, rand(seed, kD + 28 + n - 1)) ] ],
             yearly  |-> [ n \in 1..5 |->
                           [ year |-> toString(2020 + n - 1),
                             averageAqi |-> generateVariation(currentAqi, rand(seed, kD + 40 + n - 1)) ] ] ],
         locationAverages |-> locationAverages(currentAqi, seed) ]

\* An HTTP exchange as fetch() and response.json() deliver it:
\*   kind "ok"       response.ok and body.status = 'ok', body.data = data
\*   kind "http"     response.ok is false
\*   kind "status"   body.status is not 'ok', body.data = data (a message or absent)
\*   kind "network"  fetch() rejects with a TypeError
\*   kind "thrown"   fetch() rejects with a value that is not an Error
FailedWaqi == "Failed to fetch WAQI data"

\* what fetchWaqiData settles with: the body, or the value it rethrows
fetchWaqiData(resp) ==
    CASE resp.kind = "ok"      -> [ settled |-> "resolved", value |-> resp.data ]
      [] resp.kind = "http"    -> [ settled |-> "rejected",
                                    value |-> [ isError |-> TRUE, message |-> FailedWaqi ] ]
      [] resp.kind = "status"  -> [ settled |-> "rejected",
                                    value |-> [ isError |-> TRUE,
                                                message |-> IF resp.data = Absent THEN FailedWaqi
                                                            ELSE IF resp.data[1] = "" THEN FailedWaqi
                                                            ELSE resp.data[1] ] ]
      [] resp.kind = "network" -> [ settled |-> "rejected",
                                    value |-> [ isError |-> TRUE, message |-> "Failed to fetch" ] ]
      [] resp.kind = "thrown"  -> [ settled |-> "rejected",
                                    value |-> [ isError |-> FALSE, message |-> "aborted" ] ]

\* what fetchEnvironmentalData settles with, given the exchange
fetchEnvironmentalData(resp, now, seed) ==
    LET waqiResponse == fetchWaqiData(resp)
    IN IF waqiResponse.settled = "resolved"
       THEN [ settled |-> "resolved", value |-> processData(waqiResponse.value, now, seed) ]
       ELSE waqiResponse

\* ------------------------------------------------- inputs of the model

\* the <option> values of App.tsx, in order
CityOptions == <<"mumbai", "delhi", "bangalore", "chennai", "kolkata">>
Cities == { CityOptions[i] : i \in 1..NumCities }

NoReadings == [ x \in {"t", "h", "co", "pm25", "no2", "so2", "o3"} |-> Absent ]

\* upstream AQI readings, with every threshold and its successor
AqiVals == { Num(a) : a \in {0, 5, 50, 51, 100, 101, 150, 151, 200, 201, 300, 301, 500} }

\* upstream bodies for the data-shaping function
WaqiBodies ==
    { [ aqi |-> a,
        iaqi |-> [ NoReadings EXCEPT !["t"] = t, !["h"] = h, !["co"] = co,
                                     !["pm25"] = pm, !["no2"] = g, !["so2"] = g, !["o3"] = o ] ] :
      a \in AqiVals,
      t \in {Absent, Some(0), Some(Num(30))},
      h \in {Absent, Some(0), Some(Num(70))},
      co \in {Absent, Some(0), Some(Num(5))},
      pm \in {Absent, Some(Num(12))},
      g \in {Absent, Some(Num(3))},
      o \in {Absent, Some(Num(9))} }

FailedExchanges ==
    { [ kind |-> "http", data |-> Absent ],
      [ kind |-> "status", data |-> Some("Unknown station") ],
      [ kind |-> "status", data |-> Absent ],
      [ kind |-> "network", data |-> Absent ],
      [ kind |-> "thrown", data |-> Absent ] }

Exchanges == { [ kind |-> "ok", data |-> b ] : b \in WaqiBodies } \cup FailedExchanges

NowHours == {3, 17}
Seeds == 0..(RandDen - 1)

\* the exchanges the component's fetches see
ComponentBodies ==
    { [ aqi |-> Num(40), iaqi |-> NoReadings ],
      [ aqi |-> Num(160), iaqi |-> [ NoReadings EXCEPT !["t"] = Some(Num(30)), !["pm25"] = Some(Num(12)) ] ] }

ComponentExchanges ==
    { [ kind |-> "ok", data |-> b ] : b \in ComponentBodies }
    \cup { e \in FailedExchanges : e.kind \in {"http", "thrown"} \/ e.data # Absent }

ComponentNow == 17
ComponentSeed == 1

\* what fetchEnvironmentalData settles with for each of these exchanges
ComponentOutcome ==
    [ x \in ComponentExchanges |-> fetchEnvironmentalData(x, ComponentNow, ComponentSeed) ]

\* ---------------------------------------------------------------- state

VARIABLES
    city,        \* App: useState('mumbai')
    phase,       \* "constructed" (rendered, effect not yet run), "mounted", "unmounted"
    envData,     \* useState<EnvironmentalData | null>(null)
    isLoading,   \* useState(false)
    error,       \* useState<string | null>(null)
    timers,      \* the active setInterval timers: [id, city], city the closure's
    cleanup,     \* id of the interval the effect's pending cleanup clears, 0 if none
    calls,       \* every fetchData call so far: [city, status, requests]
    envSrc,      \* history: index in calls of the call that built envData, 0 if none
    lastEvent,   \* history: the last step, [type, id, exchange, outcome]
    fn           \* a direct call of fetchEnvironmentalData: [pc, exchange, now, seed, result]

compVars == <<city, phase, envData, isLoading, error, timers, cleanup, calls, envSrc, lastEvent>>
vars == <<city, phase, envData, isLoading, error, timers, cleanup, calls, envSrc, lastEvent, fn>>

NoExchange == [ kind |-> "none", data |-> Absent ]
NoOutcome == [ settled |-> "none", value |-> NullData ]
Event(type, id, exchange, outcome) ==
    [ type |-> type, id |-> id, exchange |-> exchange, outcome |-> outcome ]

FnIdle == [ pc |-> "idle", exchange |-> NoExchange, now |-> 0, seed |-> 0, result |-> NoOutcome ]

InFlight == { i \in 1..Len(calls) : calls[i].status = "pending" }

\* what the component renders (the guards before the dashboard JSX)
Render ==
    IF isLoading THEN "loading"
    ELSE IF error # Null /\ error # "" THEN "error"
    ELSE IF envData = NullData THEN "nodata"
    ELSE "dashboard"

\* ------------------------------------------------------------- component

ComponentInit ==
    /\ city = "mumbai"
    /\ phase = "constructed"
    /\ envData = NullData
    /\ isLoading = FALSE
    /\ error = Null
    /\ timers = {}
    /\ cleanup = 0
    /\ calls = << >>
    /\ envSrc = 0
    /\ lastEvent = Event("none", 0, NoExchange, NoOutcome)

\* fetchData up to its await: setIsLoading(true), setError(null), and the
\* one HTTP request of fetchWaqiData
FetchDataStart(c) ==
    /\ isLoading' = TRUE
    /\ error' = Null
    /\ calls' = Append(calls, [ city |-> c, status |-> "pending", requests |-> 1 ])

ClearIntervalNone(ts, id) == ts

\* clearInterval(interval) of the previous run of the effect
ClearInterval(ts, id) == { t \in ts : t.id # id }

\* the effect body for city c: fetchData(), then setInterval(fetchData, ...)
RunEffect(c) ==
    /\ Len(calls) < MaxCalls
    /\ FetchDataStart(c)
    /\ timers' = ClearInterval(timers, cleanup) \cup { [ id |-> Len(calls) + 1, city |-> c ] }
    /\ cleanup' = Len(calls) + 1

\* first commit: the effect runs for the initial city
Mount ==
    /\ phase = "constructed"
    /\ RunEffect(city)
    /\ phase' = "mounted"
    /\ lastEvent' = Event("mount", Len(calls) + 1, NoExchange, NoOutcome)
    /\ UNCHANGED <<city, envData, envSrc, fn>>

\* onChange of the <select>: setCity, then cleanup and effect for the new city
SelectCity(c) ==
    /\ phase = "mounted"
    /\ c # city
    /\ city' = c
    /\ RunEffect(c)
    /\ lastEvent' = Event("select", Len(calls) + 1, NoExchange, NoOutcome)
    /\ UNCHANGED <<phase, envData, envSrc, fn>>

\* the interval fires: fetchData of the closure that set it
Tick(t) ==
    /\ phase = "mounted"
    /\ t \in timers
    /\ Len(calls) < MaxCalls
    /\ FetchDataStart(t.city)
    /\ lastEvent' = Event("tick", Len(calls) + 1, NoExchange, NoOutcome)
    /\ UNCHANGED <<city, phase, envData, timers, cleanup, envSrc, fn>>

SetEnvDataMerge(old, data) ==
    IF old = NullData THEN data ELSE [ data EXCEPT !.hourly = old.hourly ]

\* setEnvData(data)
SetEnvData(old, data) == data

CaughtMessageGeneric(err) == "Failed to fetch environmental data"

\* the catch block's setError argument
CaughtMessage(err) ==
    IF err.isError THEN err.message ELSE "Failed to fetch environmental data"

\* the awaited fetchEnvironmentalData of call id resolves
FetchSucceeds(id, x) ==
    LET outcome == ComponentOutcome[x]
    IN /\ id \in InFlight
       /\ outcome.settled = "resolved"
       /\ calls' = [ calls EXCEPT ![id].status = "resolved" ]
       /\ lastEvent' = Event("resolved", id, x, outcome)
       /\ IF phase = "mounted"
          THEN /\ envData' = SetEnvData(envData, outcome.value)
               /\ envSrc' = id
               /\ isLoading' = FALSE
          ELSE UNCHANGED <<envData, envSrc, isLoading>>
       /\ UNCHANGED <<city, phase, error, timers, cleanup, fn>>

FetchFailsRetry(id, x) ==
    /\ id \in InFlight
    /\ ComponentOutcome[x].settled = "rejected"
    /\ calls[id].requests < 2
    /\ calls' = [ calls EXCEPT ![id].requests = @ + 1 ]
    /\ lastEvent' = Event("retry", id, x, NoOutcome)
    /\ UNCHANGED <<city, phase, envData, isLoading, error, timers, cleanup, envSrc, fn>>

FetchFailsNoFinally(id, x) ==
    LET outcome == ComponentOutcome[x]
    IN /\ id \in InFlight
       /\ outcome.settled = "rejected"
       /\ calls' = [ calls EXCEPT ![id].status = "rejected" ]
       /\ lastEvent' = Event("rejected", id, x, outcome)
       /\ IF phase = "mounted"
          THEN error' = CaughtMessage(outcome.value)
          ELSE UNCHANGED error
       /\ UNCHANGED <<city, phase, envData, isLoading, envSrc, timers, cleanup, fn>>

\* the awaited fetchEnvironmentalData of call id rejects
FetchFails(id, x) ==
    LET outcome == ComponentOutcome[x]
    IN /\ id \in InFlight
       /\ outcome.settled = "rejected"
       /\ calls' = [ calls EXCEPT ![id].status = "rejected" ]
       /\ lastEvent' = Event("rejected", id, x, outcome)
       /\ IF phase = "mounted"
          THEN /\ error' = CaughtMessage(outcome.value)
               /\ isLoading' = FALSE
          ELSE UNCHANGED <<error, isLoading>>
       /\ UNCHANGED <<city, phase, envData, envSrc, timers, cleanup, fn>>

\* the page goes away: the effect's cleanup clears its interval
Unmount ==
    /\ phase = "mounted"
    /\ phase' = "unmounted"
    /\ timers' = ClearInterval(timers, cleanup)
    /\ cleanup' = 0
    /\ lastEvent' = Event("unmount", 0, NoExchange, NoOutcome)
    /\ UNCHANGED <<city, envData, isLoading, error, calls, envSrc, fn>>

Init == ComponentInit /\ fn = FnIdle

Next ==
    \/ Mount
    \/ \E c \in Cities : SelectCity(c)
    \/ \E t \in timers : Tick(t)
    \/ \E id \in 1..MaxCalls, x \in ComponentExchanges : FetchSucceeds(id, x)
    \/ \E id \in 1..MaxCalls, x \in ComponentExchanges : FetchFails(id, x)
    \/ Unmount

Spec == Init /\ [][Next]_vars

\* some HTTP request in flight settles, one way or the other
Settle ==
    \E id \in 1..MaxCalls, x \in ComponentExchanges :
        FetchSucceeds(id, x) \/ FetchFails(id, x)

\* every HTTP request eventually settles: the awaited promise of a pending
\* fetchData call is resolved or rejected by the browser
LiveSpec == Init /\ [][Next]_vars /\ WF_vars(Settle)

\* ------------------------------------- the data-shaping function by itself

FnInit ==
    /\ ComponentInit
    /\ fn \in { [ pc |-> "called", exchange |-> x, now |-> n, seed |-> s, result |-> NoOutcome ] :
                x \in Exchanges, n \in NowHours, s \in Seeds }

\* the promise of fetchEnvironmentalData settles
FnSettle ==
    /\ fn.pc = "called"
    /\ fn' = [ fn EXCEPT !.pc = "settled",
                         !.result = fetchEnvironmentalData(fn.exchange, fn.now, fn.seed) ]
    /\ UNCHANGED compVars

FnNext == FnSettle

FnSpec == FnInit /\ [][FnNext]_vars

\* ---------------------------------------------------------- properties

Settled == fn.pc = "settled"
Resolved == Settled /\ fn.result.settled = "resolved"
ViewModel == fn.result.value
Upstream == fn.exchange.data

\* C1: once no fetch is in flight and the fetch for the currently selected
\* city (the one started last) succeeded, envData is the view model built
\* from the response for the currently selected city.
C1_DataOfSelectedCity ==
    ( /\ phase = "mounted"
      /\ InFlight = {}
      /\ Len(calls) > 0
      /\ calls[Len(calls)].city = city
      /\ calls[Len(calls)].status = "resolved" )
    => ( envSrc # 0 /\ calls[envSrc].city = city )

\* C2: every view model a successful fetchEnvironmentalData returns has 24
\* hourly entries, 24 daily, 4 weekly, 12 monthly and 5 yearly averages, and
\* exactly the five location averages downtown, suburbs, industrial,
\* residential, parks in that order.
C2_FixedShape ==
    Resolved =>
        /\ Len(ViewModel.hourly) = 24
        /\ Len(ViewModel.timeRangeAverages.daily) = 24
        /\ Len(ViewModel.timeRangeAverages.weekly) = 4
        /\ Len(ViewModel.timeRangeAverages.monthly) = 12
        /\ Len(ViewModel.timeRangeAverages.yearly) = 5
        /\ [ j \in DOMAIN ViewModel.locationAverages |-> ViewModel.locationAverages[j].location ]
             = <<"downtown", "suburbs", "industrial", "residential", "parks">>

C2_Witness ==
    /\ Resolved
    /\ Upstream.iaqi = NoReadings
    /\ Upstream.aqi = 0

\* C3: every fetchData call has issued exactly one HTTP request, and a call
\* whose HTTP response is not ok or whose body status is not 'ok' has
\* rejected with that error, returned no view model and is not retried.
C3_OneRequestNoRetry ==
    /\ \A i \in 1..Len(calls) : calls[i].requests = 1
    /\ lastEvent.exchange.kind \in {"http", "status"} =>
         /\ lastEvent.type = "rejected"
         /\ calls[lastEvent.id].status = "rejected"
         /\ lastEvent.outcome.settled = "rejected"
         /\ lastEvent.outcome.value.isError
         /\ lastEvent.outcome.value.message =
              ( IF lastEvent.exchange.kind = "status" /\ lastEvent.exchange.data # Absent
                THEN lastEvent.exchange.data[1]
                ELSE "Failed to fetch WAQI data" )

C3_Witness ==
    /\ lastEvent.type = "rejected"
    /\ lastEvent.exchange.kind = "status"
    /\ Len(calls) > 1
    /\ InFlight = {}

\* C4: a step in which a fetch of the mounted component fails sets error to
\* the failure's message (the fixed text when the thrown value is not an
\* Error), leaves envData unchanged, and ends with isLoading false and the
\* error banner rendered.
C4_FailureShowsBanner ==
    [][ (phase = "mounted" /\ lastEvent'.type = "rejected") =>
          /\ error' = ( IF lastEvent'.outcome.value.isError
                        THEN lastEvent'.outcome.value.message
                        ELSE "Failed to fetch environmental data" )
          /\ envData' = envData
          /\ ~isLoading'
          /\ Render' = "error" ]_vars

C4_Witness ==
    /\ phase = "mounted"
    /\ lastEvent.type = "rejected"
    /\ ~lastEvent.outcome.value.isError
    /\ envData # NullData
    /\ Render = "error"

\* the synthetic AQI values of a view model: hourly and the four averages
SyntheticAqi(vm) ==
    { vm.hourly[n].aqi.value : n \in DOMAIN vm.hourly }
    \cup { vm.timeRangeAverages.daily[n].averageAqi : n \in DOMAIN vm.timeRangeAverages.daily }
    \cup { vm.timeRangeAverages.weekly[n].averageAqi : n \in DOMAIN vm.timeRangeAverages.weekly }
    \cup { vm.timeRangeAverages.monthly[n].averageAqi : n \in DOMAIN vm.timeRangeAverages.monthly }
    \cup { vm.timeRangeAverages.yearly[n].averageAqi : n \in DOMAIN vm.timeRangeAverages.yearly }

\* C5 (as claimed): the synthetic values do not depend on the upstream AQI
\* reading: every hourly and average value, and every location average, of a
\* returned view model is a value the same field can take when the upstream
\* AQI reading is any other one.
C5_IndependentOfUpstream ==
    Resolved =>
        \A a \in AqiVals :
            /\ \A v \in SyntheticAqi(ViewModel) :
                   \E r \in 0..(RandDen - 1) : v = generateVariation(a, r)
            /\ \A j \in DOMAIN ViewModel.locationAverages :
                   ViewModel.locationAverages[j].averageAqi
                     = locationAverages(a, fn.seed)[j].averageAqi

\* C5 (amended): every hourly and average value is the upstream AQI reading
\* plus an offset in [-20, 20), clamped below at 0, and every location
\* average is the upstream AQI reading times 1.2, 0.8, 1.4, 0.9, 0.7 rounded
\* to the nearest integer.
C5_DerivedFromCurrentAqi ==
    Resolved =>
        /\ \A v \in SyntheticAqi(ViewModel) :
               /\ v >= 0
               /\ v >= Upstream.aqi - 20 * Unit
               /\ v < Upstream.aqi + 20 * Unit
        /\ \A j \in DOMAIN ViewModel.locationAverages :
               LET avg == ViewModel.locationAverages[j].averageAqi
                   f == <<12, 8, 14, 9, 7>>[j]
               IN /\ avg % Unit = 0
                  /\ f * Upstream.aqi - 5 * Unit < 10 * avg
                  /\ 10 * avg <= f * Upstream.aqi + 5 * Unit

C5_Witness ==
    /\ Resolved
    /\ Upstream.aqi = 500 * Unit
    /\ \E v \in SyntheticAqi(ViewModel) : v > 500 * Unit
    /\ ViewModel.locationAverages[3].averageAqi = 700 * Unit

\* C6 (as claimed): once a later fetch has completed, successfully or not,
\* the component no longer holds the view model of an earlier fetch, and a
\* successful fetch replaces envData as a whole.
C6_DiscardedOnNextFetch ==
    phase = "mounted" =>
        /\ \A k \in 1..Len(calls) :
               calls[k].status # "pending" => (envSrc = 0 \/ envSrc >= k)
        /\ lastEvent.type = "resolved" => envData = lastEvent.outcome.value

\* C6 (amended): a fetch that completes successfully replaces envData as a
\* whole with the view model it built, and every other step, a failed fetch
\* included, leaves envData as it is: envData is the view model of the fetch
\* that completed successfully last.
C6_ReplacedOnSuccessOnly ==
    [][ phase # "unmounted" =>
          IF lastEvent'.type = "resolved"
          THEN envData' = lastEvent'.outcome.value /\ envSrc' = lastEvent'.id
          ELSE envData' = envData /\ envSrc' = envSrc ]_vars

C6_Witness ==
    /\ phase = "mounted"
    /\ lastEvent.type = "resolved"
    /\ envSrc = lastEvent.id
    /\ \E k \in 1..Len(calls) :
           /\ k # envSrc
           /\ calls[k].status = "resolved"
    /\ lastEvent.exchange.data.aqi = 160 * Unit

\* C7: the category of every returned view model is the threshold function
\* of its AQI value, with inclusive upper bounds 50, 100, 150, 200, 300.
C7_CategoryThresholds ==
    Resolved =>
        LET a == ViewModel.current.aqi.value
            c == ViewModel.current.aqi.category
        IN /\ c = "Good" <=> a <= 50 * Unit
           /\ c = "Moderate" <=> (50 * Unit < a /\ a <= 100 * Unit)
           /\ c = "Unhealthy for Sensitive Groups" <=> (100 * Unit < a /\ a <= 150 * Unit)
           /\ c = "Unhealthy" <=> (150 * Unit < a /\ a <= 200 * Unit)
           /\ c = "Very Unhealthy" <=> (200 * Unit < a /\ a <= 300 * Unit)
           /\ c = "Hazardous" <=> a > 300 * Unit

C7_Witness ==
    /\ Resolved
    /\ Upstream.aqi = 300 * Unit
    /\ ViewModel.current.aqi.category = "Very Unhealthy"

\* C8: exactly one interval timer is active while the component is mounted
\* and none otherwise, the active timer fetches for the selected city, and
\* every fetch a tick starts is for the city selected at the tick.
C8_OnePollingTimer ==
    /\ Cardinality(timers) <= 1
    /\ phase = "mounted" <=> Cardinality(timers) = 1
    /\ \A t \in timers : t.city = city
    /\ lastEvent.type = "tick" => calls[lastEvent.id].city = city

C8_Witness ==
    /\ lastEvent.type = "tick"
    /\ city # "mumbai"
    /\ calls[1].city = "mumbai"
    /\ Cardinality(timers) = 1

\* C9: the current snapshot maps upstream one-to-one: the AQI value and the
\* four pollutants are the upstream readings, and temperature, humidity and
\* co2 are the upstream t, h, co readings whenever there is one, a reading
\* of 0 included, and 25, 60, 400 only when there is none.
C9_CurrentMapsUpstream ==
    Resolved =>
        LET cur == ViewModel.current
            dflt(x, d) == IF Upstream.iaqi[x] = Absent THEN d ELSE Upstream.iaqi[x][1]
        IN /\ cur.aqi.value = Upstream.aqi
           /\ cur.aqi.pollutants.pm25 = Upstream.iaqi["pm25"]
           /\ cur.aqi.pollutants.no2 = Upstream.iaqi["no2"]
           /\ cur.aqi.pollutants.so2 = Upstream.iaqi["so2"]
           /\ cur.aqi.pollutants.o3 = Upstream.iaqi["o3"]
           /\ cur.temperature = dflt("t", 25 * Unit)
           /\ cur.humidity = dflt("h", 60 * Unit)
           /\ cur.co2 = dflt("co", 400 * Unit)

\* C10: while a fetchData call of the mounted component is in flight,
\* isLoading is true and the loading placeholder is rendered.
C10_LoadingWhileInFlight ==
    (phase = "mounted" /\ InFlight # {}) => (isLoading /\ Render = "loading")

\* C11: whenever no fetch of the mounted component is in flight, error is
\* non-null if and only if the most recently started fetchData call failed,
\* and after that call has succeeded the dashboard is rendered.
C11_ErrorOfLatestFetch ==
    (phase = "mounted" /\ InFlight = {} /\ Len(calls) > 0) =>
        /\ error # Null <=> calls[Len(calls)].status = "rejected"
        /\ calls[Len(calls)].status = "resolved" => Render = "dashboard"

\* C12: given that every HTTP request eventually settles, whenever the
\* mounted component is loading, isLoading eventually becomes false again
\* and the dashboard, the error banner or the no-data notice is rendered
\* (unless the component is unmounted first).
C12_LoadingEnds ==
    (phase = "mounted" /\ isLoading)
      ~> ( \/ phase = "unmounted"
           \/ (~isLoading /\ Render \in {"dashboard", "error", "nodata"}) )

C12_Witness ==
    /\ phase = "mounted"
    /\ ~isLoading
    /\ Len(calls) = MaxCalls
    /\ InFlight = {}
    /\ \A i \in 1..Len(calls) : calls[i].status = "rejected"
    /\ Render = "error"

====
